---------------------------- MODULE Spec2Model ----------------------------
(***************************************************************************)
(* Model of the teradatarustapi binding layer (src/src/lib.rs) and of the  *)
(* request loop of its sample programs (src/src/bin/sample.rs, cmdline.rs).*)
(*                                                                         *)
(*  - the symbol registry: GOSIDE_LIBRARY and the eleven OnceLock entries, *)
(*    written by load_driver;                                              *)
(*  - the call wrappers: each one marshals its text inputs, invokes the    *)
(*    resolved entry point, and copies and frees the buffers it is handed; *)
(*  - execute_request / execute_simple_request driving a rows handle.      *)
(*                                                                         *)
(* The native library is the environment: what an entry point writes to    *)
(* its output parameters is chosen nondeterministically.                   *)
(***************************************************************************)
EXTENDS Integers, Sequences, FiniteSets, TLC

\* ------------------------------------------------------------------------
\* Bounds of the model
\* ------------------------------------------------------------------------

\* Number of distinct complete library builds a directory may hold.
MaxBuilds == 1
\* Largest number of results of one request, and of rows of one result.
MaxResults == 2
MaxRows == 2
\* The most requests main makes on its connection.
MaxRequests == 2

\* ------------------------------------------------------------------------
\* Entry points (lib.rs 96-108, resolved in this order at lib.rs 413-523)
\* ------------------------------------------------------------------------

SymbolOrder ==
    << "goCombineJSON", "goParseParams", "goCreateConnection",
       "goCloseConnection", "goCancelRequest", "rustgoCreateRows",
       "rustgoResultMetaData", "rustgoFetchRow", "goNextResult",
       "goCloseRows", "goFreePointer" >>

EntryPoints == { SymbolOrder[i] : i \in DOMAIN SymbolOrder }

\* ------------------------------------------------------------------------
\* Library files.  A directory either holds no loadable teradatasql.<ext>
\* file, or a library file exporting some set of the entry points: a
\* complete build, or one that lacks one entry point.  build tells the
\* files apart.
\* ------------------------------------------------------------------------

NoFile == [file |-> FALSE, build |-> 0, exports |-> {}]

LibDirs ==
    {NoFile}
    \cup { [file |-> TRUE, build |-> b, exports |-> EntryPoints] : b \in 1..MaxBuilds }
    \cup { [file |-> TRUE, build |-> MaxBuilds + i,
             exports |-> EntryPoints \ {SymbolOrder[i]}] : i \in DOMAIN SymbolOrder }

\* ------------------------------------------------------------------------
\* OnceLock cells
\* ------------------------------------------------------------------------

\* The library slot holds the opened library; a registry entry holds the
\* symbol resolved from a library, named by the library's build.
EmptyCell == [set |-> FALSE, val |-> NoFile]
EmptyEntry == [set |-> FALSE, val |-> 0]

\* OnceLock::set: stores the value only into an empty cell, else fails and
\* leaves the cell alone.
OnceLockSetOverwrite(cell, v) ==
    [ok |-> TRUE, cell |-> [set |-> TRUE, val |-> v]]

OnceLockSet(cell, v) ==
    IF cell.set
    THEN [ok |-> FALSE, cell |-> cell]
    ELSE [ok |-> TRUE, cell |-> [set |-> TRUE, val |-> v]]

\* ------------------------------------------------------------------------
\* Results
\* ------------------------------------------------------------------------

\* What load_driver returns: Ok(()) or Err(message).
LoadOk == [kind |-> "Ok", val |-> <<>>]
LoadErr(m) == [kind |-> "Err", val |-> m]

\* What a wrapper or an operation built on wrappers returns, or how it
\* ended: Ok or Err with the numbers and texts carried, a tag for an
\* Option or bool payload or for the prefix of an error message; Panic is a
\* failed unwrap, Segv a fault in a read through a null pointer.
Ret(kind, tag, nums, texts) == [kind |-> kind, tag |-> tag, nums |-> nums, texts |-> texts]
Ok(tag, nums, texts) == Ret("Ok", tag, nums, texts)
OkUnit == Ret("Ok", "", <<>>, <<>>)
Err(text) == Ret("Err", "", <<>>, <<text>>)
ErrFrom(prefix, r) == Ret("Err", prefix, <<>>, r.texts)
Panic == Ret("Panic", "", <<>>, <<>>)
Segv == Ret("Segv", "", <<>>, <<>>)

\* ------------------------------------------------------------------------
\* load_driver
\* ------------------------------------------------------------------------

\* Library::new(lib_path): opens the file the directory holds, if any.
LibraryNew(lib_dir) == lib_dir.file

\* lib.rs 425-524: the eleven match blocks, in order.  A symbol the library
\* does not export returns the link error at once; the entries set by the
\* earlier blocks stay set.
RECURSIVE LinkFrom(_, _, _)
LinkFrom(lib, reg, i) ==
    IF i > Len(SymbolOrder)
    THEN [registry |-> reg, result |-> LoadOk]
    ELSE LET name == SymbolOrder[i]
         IN  IF name \notin lib.exports
             THEN [registry |-> reg,
                   result |-> LoadErr(<<"Could not link to function", name>>)]
             ELSE LET s == OnceLockSet(reg[name], lib.build)
                  IN  IF ~s.ok
                      THEN [registry |-> reg, result |-> LoadErr(<<name, "already set">>)]
                      ELSE LinkFrom(lib, [reg EXCEPT ![name] = s.cell], i + 1)

\* A load_driver that takes a library slot already set for a success.
SetLibraryIdempotent(lib_slot, lib_dir) ==
    LET s == OnceLockSet(lib_slot, lib_dir)
    IN  [ok |-> s.ok, cell |-> s.cell, result |-> LoadOk]

\* lib.rs 406-410: GOSIDE_LIBRARY.set(lib.clone()), its error mapped to
\* the message load_driver returns.
SetLibrary(lib_slot, lib_dir) ==
    LET s == OnceLockSet(lib_slot, lib_dir)
    IN  [ok |-> s.ok, cell |-> s.cell, result |-> LoadErr(<<"Library already set">>)]

\* A load_driver that claims the library slot before it opens the file.
load_driver_slot_first(lib_slot, reg, lib_dir) ==
    LET s == SetLibrary(lib_slot, lib_dir)
    IN  IF ~s.ok
        THEN [library |-> lib_slot, registry |-> reg, opened |-> FALSE, dropped |-> FALSE,
              result |-> s.result]
        ELSE IF ~LibraryNew(lib_dir)
        THEN [library |-> s.cell, registry |-> reg, opened |-> FALSE, dropped |-> FALSE,
              result |-> LoadErr(<<"Could not load library">>)]
        ELSE LET l == LinkFrom(s.cell.val, reg, 1)
             IN  [library |-> s.cell, registry |-> l.registry,
                  opened |-> TRUE, dropped |-> FALSE,
                  result |-> l.result]

\* The whole of load_driver: the new library slot, the new registry and the
\* value returned; opened tells that Library::new returned a library, and
\* dropped that this library was dropped again (the Arc that
\* GOSIDE_LIBRARY.set hands back in its Err is discarded by map_err, which
\* closes the library).
load_driver(lib_slot, reg, lib_dir) ==
    IF ~LibraryNew(lib_dir)
    THEN [library |-> lib_slot, registry |-> reg, opened |-> FALSE, dropped |-> FALSE,
          result |-> LoadErr(<<"Could not load library">>)]
    ELSE LET s == SetLibrary(lib_slot, lib_dir)
         IN  IF ~s.ok
             THEN [library |-> lib_slot, registry |-> reg, opened |-> TRUE, dropped |-> TRUE,
                   result |-> s.result]
             ELSE LET l == LinkFrom(s.cell.val, reg, 1)
                  IN  [library |-> s.cell, registry |-> l.registry,
                       opened |-> TRUE, dropped |-> FALSE,
                       result |-> l.result]


\* ------------------------------------------------------------------------
\* Text.  A text is a sequence of bytes.  Rust &str inputs are valid UTF-8
\* and may hold a NUL; a native C string holds no NUL and may hold bytes
\* that are not valid UTF-8 (255).
\* ------------------------------------------------------------------------

InputTexts == { <<97>>, <<97, 0, 98>> }

\* The text the native side puts in the buffer of each output parameter.
NativeText(out) ==
    CASE out = "error" -> <<101, 255>>
      [] out = "combined" -> <<123, 255, 125>>
      [] out = "activity_name" -> <<110>>
      [] out = "column_metadata" -> <<109, 255>>
      [] out = "column_values" -> <<91, 255, 93>>

\* String::from_utf8_lossy on a C string: a byte that is no valid UTF-8 is
\* replaced by U+FFFD.
RECURSIVE ToStringLossy(_)
ToStringLossy(bytes) ==
    IF bytes = <<>> THEN <<>>
    ELSE << IF Head(bytes) < 128 THEN Head(bytes) ELSE 65533 >>
         \o ToStringLossy(Tail(bytes))

HasNul(text) == \E i \in DOMAIN text : text[i] = 0

\* A pointer written by the native side: null, or a native-owned buffer.
NullPtr == [null |-> TRUE, text |-> <<>>]
Buffer(t) == [null |-> FALSE, text |-> t]
PointersTo(out) == {NullPtr, Buffer(NativeText(out))}

\* What a read through a null pointer (CStr::from_ptr(null)) may do: the
\* process is killed, or the read yields an empty text.
UBOutcomes == {"segv", "empty"}

\* ------------------------------------------------------------------------
\* Events of one wrapper call, in program order.
\* ------------------------------------------------------------------------

CallEv(ep, nums, texts) ==
    [ev |-> "call", what |-> ep, log |-> 0, nums |-> nums, texts |-> texts, ptr |-> NullPtr]
ReadEv(out) ==
    [ev |-> "read", what |-> out, log |-> 0, nums |-> <<>>, texts |-> <<>>, ptr |-> NullPtr]
FreeEv(out, u_log, p) ==
    [ev |-> "free", what |-> out, log |-> u_log, nums |-> <<>>, texts |-> <<>>, ptr |-> p]

\* ------------------------------------------------------------------------
\* Wrappers (lib.rs 110-357).  Each takes the registry, its arguments, the
\* values the native call writes (nat) and yields the events and the value
\* returned.
\* ------------------------------------------------------------------------

\* lib.rs 352-357: GO_FREE_POINTER.get().unwrap()(u_log, ptr)
go_free_pointer_wrapper_leak(reg, ev, u_log, out, p) ==
    [ev |-> ev, panic |-> ~reg["goFreePointer"].set]

go_free_pointer_wrapper(reg, ev, u_log, out, p) ==
    IF ~reg["goFreePointer"].set
    THEN [ev |-> ev, panic |-> TRUE]
    ELSE [ev |-> Append(ev, FreeEv(out, u_log, p)), panic |-> FALSE]

\* The error branch every wrapper shares (for example lib.rs 126-130): copy
\* the error text, free the error buffer, return Err.
ErrorBranch(reg, ev, u_log, error) ==
    LET f == go_free_pointer_wrapper(reg, Append(ev, ReadEv("error")), u_log, "error", error)
    IN  IF f.panic
        THEN [ev |-> f.ev, ret |-> Panic]
        ELSE [ev |-> f.ev, ret |-> Err(ToStringLossy(error.text))]

\* A copy-and-free that frees with the sentinel log handle.
CopyAndFreeLogZero(reg, ev, u_log, out, p, ub) ==
    IF p.null /\ ub = "segv"
    THEN [ev |-> Append(ev, ReadEv(out)), ret |-> Segv, text |-> <<>>]
    ELSE LET f == go_free_pointer_wrapper(reg, Append(ev, ReadEv(out)), 0, out, p)
         IN  IF f.panic
             THEN [ev |-> f.ev, ret |-> Panic, text |-> <<>>]
             ELSE [ev |-> f.ev, ret |-> OkUnit, text |-> ToStringLossy(p.text)]

\* Copy an output buffer and free it (for example lib.rs 131-132, 305-306).
\* The copy reads through the pointer without a null check.
CopyAndFree(reg, ev, u_log, out, p, ub) ==
    IF p.null /\ ub = "segv"
    THEN [ev |-> Append(ev, ReadEv(out)), ret |-> Segv, text |-> <<>>]
    ELSE LET f == go_free_pointer_wrapper(reg, Append(ev, ReadEv(out)), u_log, out, p)
         IN  IF f.panic
             THEN [ev |-> f.ev, ret |-> Panic, text |-> <<>>]
             ELSE [ev |-> f.ev, ret |-> OkUnit, text |-> ToStringLossy(p.text)]

\* lib.rs 111-135
go_combine_json_wrapper(reg, json1, json2, nat, ub) ==
    IF HasNul(json1) \/ HasNul(json2) THEN [ev |-> <<>>, ret |-> Panic]
    ELSE IF ~reg["goCombineJSON"].set THEN [ev |-> <<>>, ret |-> Panic]
    ELSE LET ev0 == << CallEv("goCombineJSON", <<>>, <<json1, json2>>) >>
         IN  IF ~nat.error.null
             THEN ErrorBranch(reg, ev0, 0, nat.error)
             ELSE LET c == CopyAndFree(reg, ev0, 0, "combined", nat.combined, ub)
                  IN  IF c.ret.kind # "Ok"
                      THEN [ev |-> c.ev, ret |-> c.ret]
                      ELSE [ev |-> c.ev, ret |-> Ok("", <<>>, <<c.text>>)]

\* lib.rs 138-157.  The error buffer is freed with u_log, the value the
\* native call left in its log output (0 when it wrote none).
go_parse_params_wrapper(reg, params, nat) ==
    IF HasNul(params) THEN [ev |-> <<>>, ret |-> Panic]
    ELSE IF ~reg["goParseParams"].set THEN [ev |-> <<>>, ret |-> Panic]
    ELSE LET ev0 == << CallEv("goParseParams", <<>>, <<params>>) >>
         IN  IF ~nat.error.null
             THEN LET ev1 == ev0 \o << ReadEv("error"), ReadEv("log") >>
                      f == go_free_pointer_wrapper(reg, ev1, nat.log, "error", nat.error)
                  IN  IF f.panic
                      THEN [ev |-> f.ev, ret |-> Panic]
                      ELSE [ev |-> f.ev, ret |-> Err(ToStringLossy(nat.error.text))]
             ELSE [ev |-> Append(ev0, ReadEv("log")), ret |-> Ok("", <<nat.log>>, <<>>)]

\* lib.rs 160-184
go_create_connection_wrapper(reg, u_log, version, params, nat) ==
    IF HasNul(version) \/ HasNul(params) THEN [ev |-> <<>>, ret |-> Panic]
    ELSE IF ~reg["goCreateConnection"].set THEN [ev |-> <<>>, ret |-> Panic]
    ELSE LET ev0 == << CallEv("goCreateConnection", <<u_log>>, <<version, params>>) >>
         IN  IF ~nat.error.null
             THEN ErrorBranch(reg, ev0, u_log, nat.error)
             ELSE [ev |-> Append(ev0, ReadEv("conn_handle")), ret |-> Ok("", <<nat.conn_handle>>, <<>>)]

\* lib.rs 187-201
go_close_connection_wrapper(reg, u_log, conn_handle, nat) ==
    IF ~reg["goCloseConnection"].set THEN [ev |-> <<>>, ret |-> Panic]
    ELSE LET ev0 == << CallEv("goCloseConnection", <<u_log, conn_handle>>, <<>>) >>
         IN  IF ~nat.error.null
             THEN ErrorBranch(reg, ev0, u_log, nat.error)
             ELSE [ev |-> ev0, ret |-> OkUnit]

\* lib.rs 204-218
go_cancel_request_wrapper(reg, u_log, conn_handle, nat) ==
    IF ~reg["goCancelRequest"].set THEN [ev |-> <<>>, ret |-> Panic]
    ELSE LET ev0 == << CallEv("goCancelRequest", <<u_log, conn_handle>>, <<>>) >>
         IN  IF ~nat.error.null
             THEN ErrorBranch(reg, ev0, u_log, nat.error)
             ELSE [ev |-> ev0, ret |-> OkUnit]

\* lib.rs 221-247
rustgo_create_rows_wrapper(reg, u_log, conn_handle, request_text, bind_values, nat) ==
    IF HasNul(request_text) \/ HasNul(bind_values) THEN [ev |-> <<>>, ret |-> Panic]
    ELSE IF ~reg["rustgoCreateRows"].set THEN [ev |-> <<>>, ret |-> Panic]
    ELSE LET ev0 == << CallEv("rustgoCreateRows", <<u_log, conn_handle>>,
                              <<request_text, bind_values>>) >>
         IN  IF ~nat.error.null
             THEN ErrorBranch(reg, ev0, u_log, nat.error)
             ELSE [ev |-> Append(ev0, ReadEv("rows_handle")), ret |-> Ok("", <<nat.rows_handle>>, <<>>)]

\* lib.rs 250-280
rustgo_result_metadata_wrapper(reg, u_log, rows_handle, nat, ub) ==
    IF ~reg["rustgoResultMetaData"].set THEN [ev |-> <<>>, ret |-> Panic]
    ELSE LET ev0 == << CallEv("rustgoResultMetaData", <<u_log, rows_handle>>, <<>>) >>
         IN  IF ~nat.error.null
             THEN ErrorBranch(reg, ev0, u_log, nat.error)
             ELSE IF (nat.activity_name.null \/ nat.column_metadata.null) /\ ub = "segv"
             THEN [ev |-> IF nat.activity_name.null
                          THEN Append(ev0, ReadEv("activity_name"))
                          ELSE ev0 \o << ReadEv("activity_name"), ReadEv("column_metadata") >>,
                   ret |-> Segv]
             ELSE LET ev1 == ev0 \o << ReadEv("activity_name"), ReadEv("column_metadata") >>
                      f1 == go_free_pointer_wrapper(reg, ev1, u_log, "activity_name", nat.activity_name)
                      f2 == go_free_pointer_wrapper(reg, f1.ev, u_log, "column_metadata", nat.column_metadata)
                  IN  IF f1.panic THEN [ev |-> f1.ev, ret |-> Panic]
                      ELSE IF f2.panic THEN [ev |-> f2.ev, ret |-> Panic]
                      ELSE [ev |-> f2.ev \o << ReadEv("activity_count"), ReadEv("activity_type") >>,
                            ret |-> Ok("", << nat.activity_count, nat.activity_type >>,
                                        << ToStringLossy(nat.activity_name.text),
                                           ToStringLossy(nat.column_metadata.text) >>)]

\* lib.rs 283-309
rustgo_fetch_row_wrapper(reg, u_log, rows_handle, nat) ==
    IF ~reg["rustgoFetchRow"].set THEN [ev |-> <<>>, ret |-> Panic]
    ELSE LET ev0 == << CallEv("rustgoFetchRow", <<u_log, rows_handle>>, <<>>) >>
         IN  IF ~nat.error.null
             THEN ErrorBranch(reg, ev0, u_log, nat.error)
             ELSE IF nat.column_values.null
             THEN [ev |-> ev0, ret |-> Ok("None", <<>>, <<>>)]
             ELSE LET c == CopyAndFree(reg, ev0, u_log, "column_values", nat.column_values, "empty")
                  IN  IF c.ret.kind # "Ok"
                      THEN [ev |-> c.ev, ret |-> c.ret]
                      ELSE [ev |-> c.ev, ret |-> Ok("Some", <<>>, <<c.text>>)]

\* lib.rs 312-332; 89 is 'Y'
go_next_result_wrapper(reg, u_log, rows_handle, nat) ==
    IF ~reg["goNextResult"].set THEN [ev |-> <<>>, ret |-> Panic]
    ELSE LET ev0 == << CallEv("goNextResult", <<u_log, rows_handle>>, <<>>) >>
         IN  IF ~nat.error.null
             THEN ErrorBranch(reg, ev0, u_log, nat.error)
             ELSE [ev |-> Append(ev0, ReadEv("avail")), ret |-> Ok(IF nat.avail = 89 THEN "true" ELSE "false", <<>>, <<>>)]

\* A close_rows wrapper that invokes the entry point again after an error.
go_close_rows_wrapper_retry(reg, u_log, rows_handle, nat) ==
    IF ~reg["goCloseRows"].set THEN [ev |-> <<>>, ret |-> Panic]
    ELSE LET ev0 == << CallEv("goCloseRows", <<u_log, rows_handle>>, <<>>) >>
         IN  IF ~nat.error.null
             THEN ErrorBranch(reg, ev0 \o ev0, u_log, nat.error)
             ELSE [ev |-> ev0, ret |-> OkUnit]

\* lib.rs 335-349
go_close_rows_wrapper(reg, u_log, rows_handle, nat) ==
    IF ~reg["goCloseRows"].set THEN [ev |-> <<>>, ret |-> Panic]
    ELSE LET ev0 == << CallEv("goCloseRows", <<u_log, rows_handle>>, <<>>) >>
         IN  IF ~nat.error.null
             THEN ErrorBranch(reg, ev0, u_log, nat.error)
             ELSE [ev |-> ev0, ret |-> OkUnit]


\* ------------------------------------------------------------------------
\* What the native entry points may write to their output parameters
\* (the *mut parameters of the function types, lib.rs 19-94).
\* ------------------------------------------------------------------------

\* Handles are opaque: two distinct values.
Handles == {1, 2}
HandlePairs == { p \in Handles \X Handles : p[1] # p[2] }
\* A scalar output: the 0 the wrapper initialised it to, or a value written.
NativeScalars == {0} \cup Handles
\* The availability byte of goNextResult: untouched 0, 'N' (78) or 'Y' (89).
AvailBytes == {0, 78, 89}

NatError == [error : PointersTo("error")]
NatCombineJSON == [error : PointersTo("error"), combined : PointersTo("combined")]
NatParseParams == [error : PointersTo("error"), log : NativeScalars]
NatCreateConnection == [error : PointersTo("error"), conn_handle : NativeScalars]
NatCreateRows == [error : PointersTo("error"), rows_handle : NativeScalars]
NatResultMetaData ==
    [error : PointersTo("error"), activity_count : NativeScalars, activity_type : {0},
     activity_name : PointersTo("activity_name"),
     column_metadata : PointersTo("column_metadata")]
NatFetchRow == [error : PointersTo("error"), column_values : PointersTo("column_values")]
NatNextResult == [error : PointersTo("error"), avail : AvailBytes]

\* The values an entry point writes matter only if it is called: the set
\* to choose them from when the step before it returned ret.
WhenReached(ret, nats) == IF ret.kind = "Ok" THEN nats ELSE {CHOOSE n \in nats : TRUE}

\* ------------------------------------------------------------------------
\* create_connection (lib.rs 528-605)
\* ------------------------------------------------------------------------

Call(op, w, nat) == [op |-> op, ev |-> w.ev, ret |-> w.ret, nat |-> nat]

\* serde_json::to_string of the client_kind / client_stack map: a JSON
\* object, in which a NUL would be escaped.
ClientJson == <<123, 125>>

\* A create_connection that goes on with the caller's JSON, not the merged one.
create_connection_unmerged(reg, connect_params_json, n1, n2, n3, ub) ==
    LET w1 == go_combine_json_wrapper(reg, connect_params_json, ClientJson, n1, ub)
        c1 == Call("go_combine_json_wrapper", w1, n1)
    IN  IF w1.ret.kind # "Ok"
        THEN [calls |-> <<c1>>,
              ret |-> IF w1.ret.kind = "Err"
                      THEN ErrFrom("Error from go_combine_json_wrapper", w1.ret)
                      ELSE w1.ret]
        ELSE
    LET w2 == go_parse_params_wrapper(reg, connect_params_json, n2)
        c2 == Call("go_parse_params_wrapper", w2, n2)
    IN  IF w2.ret.kind # "Ok"
        THEN [calls |-> <<c1, c2>>,
              ret |-> IF w2.ret.kind = "Err"
                      THEN ErrFrom("Error from go_parse_params_wrapper", w2.ret)
                      ELSE w2.ret]
        ELSE
    LET u_log == w2.ret.nums[1]
        w3 == go_create_connection_wrapper(reg, u_log, <<>>, connect_params_json, n3)
        c3 == Call("go_create_connection_wrapper", w3, n3)
    IN  IF w3.ret.kind # "Ok"
        THEN [calls |-> <<c1, c2, c3>>,
              ret |-> IF w3.ret.kind = "Err"
                      THEN ErrFrom("Error from go_create_connection_wrapper", w3.ret)
                      ELSE w3.ret]
        ELSE [calls |-> <<c1, c2, c3>>, ret |-> Ok("", <<u_log, w3.ret.nums[1]>>, <<>>)]

create_connection(reg, connect_params_json, n1, n2, n3, ub) ==
    LET w1 == go_combine_json_wrapper(reg, connect_params_json, ClientJson, n1, ub)
        c1 == Call("go_combine_json_wrapper", w1, n1)
    IN  IF w1.ret.kind # "Ok"
        THEN [calls |-> <<c1>>,
              ret |-> IF w1.ret.kind = "Err"
                      THEN ErrFrom("Error from go_combine_json_wrapper", w1.ret)
                      ELSE w1.ret]
        ELSE
    LET combined_json == w1.ret.texts[1]
        w2 == go_parse_params_wrapper(reg, combined_json, n2)
        c2 == Call("go_parse_params_wrapper", w2, n2)
    IN  IF w2.ret.kind # "Ok"
        THEN [calls |-> <<c1, c2>>,
              ret |-> IF w2.ret.kind = "Err"
                      THEN ErrFrom("Error from go_parse_params_wrapper", w2.ret)
                      ELSE w2.ret]
        ELSE
    LET u_log == w2.ret.nums[1]
        w3 == go_create_connection_wrapper(reg, u_log, <<>>, combined_json, n3)
        c3 == Call("go_create_connection_wrapper", w3, n3)
    IN  IF w3.ret.kind # "Ok"
        THEN [calls |-> <<c1, c2, c3>>,
              ret |-> IF w3.ret.kind = "Err"
                      THEN ErrFrom("Error from go_create_connection_wrapper", w3.ret)
                      ELSE w3.ret]
        ELSE [calls |-> <<c1, c2, c3>>, ret |-> Ok("", <<u_log, w3.ret.nums[1]>>, <<>>)]


\* ------------------------------------------------------------------------
\* execute_simple_request, commit, rollback, set_autocommit (lib.rs 607-654)
\* ------------------------------------------------------------------------

\* "null": JSON null for no bind values
NullBindValues == <<110, 117, 108, 108>>

\* An execute_simple_request that leaves the rows handle open.
execute_simple_request_no_close(reg, u_log, conn_handle, request_text, n1, n2) ==
    LET w1 == rustgo_create_rows_wrapper(reg, u_log, conn_handle, request_text,
                                         NullBindValues, n1)
        c1 == Call("rustgo_create_rows_wrapper", w1, n1)
    IN  [calls |-> <<c1>>,
         ret |-> IF w1.ret.kind = "Err"
                 THEN ErrFrom("Error from rustgo_create_rows_wrapper", w1.ret)
                 ELSE IF w1.ret.kind = "Ok" THEN OkUnit ELSE w1.ret]

execute_simple_request(reg, u_log, conn_handle, request_text, n1, n2) ==
    LET w1 == rustgo_create_rows_wrapper(reg, u_log, conn_handle, request_text,
                                         NullBindValues, n1)
        c1 == Call("rustgo_create_rows_wrapper", w1, n1)
    IN  IF w1.ret.kind # "Ok"
        THEN [calls |-> <<c1>>,
              ret |-> IF w1.ret.kind = "Err"
                      THEN ErrFrom("Error from rustgo_create_rows_wrapper", w1.ret)
                      ELSE w1.ret]
        ELSE
    LET rows_handle == w1.ret.nums[1]
        w2 == go_close_rows_wrapper(reg, u_log, rows_handle, n2)
        c2 == Call("go_close_rows_wrapper", w2, n2)
    IN  [calls |-> <<c1, c2>>,
         ret |-> IF w2.ret.kind = "Err"
                 THEN ErrFrom("Error from go_close_rows_wrapper", w2.ret)
                 ELSE w2.ret]

\* The request texts, as ASCII bytes.
\* "{fn teradata_commit}"
CommitText ==
    <<123, 102, 110, 32, 116, 101, 114, 97, 100, 97, 116, 97, 95, 99, 111, 109, 109, 105, 116, 125>>
\* "{fn teradata_rollback}"
RollbackText ==
    <<123, 102, 110, 32, 116, 101, 114, 97, 100, 97, 116, 97, 95, 114, 111, 108, 108, 98, 97, 99, 107, 125>>
\* "{fn teradata_nativesql}{fn teradata_autocommit_" , "on" / "off" , "}"
AutocommitPrefix ==
    <<123, 102, 110, 32, 116, 101, 114, 97, 100, 97, 116, 97, 95, 110, 97, 116, 105, 118, 101, 115, 113, 108, 125,
    123, 102, 110, 32, 116, 101, 114, 97, 100, 97, 116, 97, 95, 97, 117, 116, 111, 99, 111, 109, 109, 105, 116, 95>>
AutocommitOn == <<111, 110>>
AutocommitOff == <<111, 102, 102>>

commit(reg, u_log, conn_handle, n1, n2) ==
    execute_simple_request(reg, u_log, conn_handle, CommitText, n1, n2)

rollback(reg, u_log, conn_handle, n1, n2) ==
    execute_simple_request(reg, u_log, conn_handle, RollbackText, n1, n2)

\* format!("{{fn teradata_nativesql}}{{fn teradata_autocommit_{}}}", on / off)
set_autocommit(reg, u_log, conn_handle, b, n1, n2) ==
    execute_simple_request(reg, u_log, conn_handle,
        AutocommitPrefix \o (IF b THEN AutocommitOn ELSE AutocommitOff) \o <<125>>,
        n1, n2)

\* ------------------------------------------------------------------------
\* State
\* ------------------------------------------------------------------------

VARIABLES
    library,     \* GOSIDE_LIBRARY
    registry,    \* the eleven OnceLock entries, by entry point name
    loadCall,    \* the latest load_driver call: whether the library slot was
                 \* set before it, and the value it returned
    loadOk,      \* some load_driver call has returned Ok
    api,         \* the latest operation of the library that was called
    calls,       \* the wrapper calls that operation made, in order
    apiRet,      \* the value that operation returned
    aborted,     \* the process was killed by a panic or a fault
    pc,          \* execute_request: the statement it is at
    req,         \* execute_request: its arguments
    rows,        \* execute_request: rows_handle
    cursor,      \* the native cursor behind the rows handle
    hist,        \* the wrapper calls of the current execute_request
    main,        \* main of the sample programs: the statement it is at, its
                 \* connection and what it has called so far
    loader,      \* threads: each thread's load_driver call in progress, if any
    inflight,    \* threads: the native call each calling thread is inside
    platform,    \* the build target and the FIPS file get_extension reads
    extension    \* the suffix get_extension returned, "" before it ran

libVars == <<library, registry, loadCall, loadOk>>
callVars == <<api, calls, apiRet, aborted>>
reqVars == <<pc, req, rows, cursor, hist, main>>
thrVars == <<loader, inflight>>
extVars == <<platform, extension>>
vars == <<library, registry, loadCall, loadOk, api, calls, apiRet, aborted,
          pc, req, rows, cursor, hist, main, loader, inflight, platform, extension>>

EmptyRegistry == [e \in EntryPoints |-> EmptyEntry]

\* The thread inside load_driver is at the match block of SymbolOrder[at]
\* with the library lib; at = 0 when no load_driver call is in progress.
LoaderIdle == [at |-> 0, lib |-> NoFile, oks |-> 0]

\* The threads that call wrappers, and a thread that is in no native call.
Threads == {1, 2}
\* The threads that call load_driver.
Loaders == {3, 4}
NoFlight == [op |-> "none", u_log |-> 0, handle |-> 0]

\* The target the crate was built for and the content of
\* /proc/sys/crypto/fips_enabled (<<>> when it cannot be read); the operating
\* system and CPU names are texts.
Platform(os, arch, bits, fips_file) ==
    [os |-> os, arch |-> arch, bits |-> bits, fips_file |-> fips_file]
\* "linux", "x86_64"
HostPlatform ==
    Platform(<<108, 105, 110, 117, 120>>, <<120, 56, 54, 95, 54, 52>>, 64, <<>>)

NoLoad ==
    [called |-> FALSE, opened_before |-> FALSE, opened |-> FALSE, dropped |-> FALSE,
     result |-> LoadOk]

NoRequest == [u_log |-> 0, conn_handle |-> 0, request_text |-> <<>>, bind_values |-> <<>>]
NoCursor == [results |-> <<>>, res |-> 0, row |-> 0]

Fatal(ret) == ret.kind \in {"Panic", "Segv"}

\* main before its first call: no connection, no request made, no rows
\* handle left open, close_connection not called.
NoMain ==
    [pc |-> "load_driver", connected |-> FALSE, u_log |-> 0, conn_handle |-> 0,
     requests |-> 0, unclosed |-> 0, closes |-> 0]

Init ==
    /\ library = EmptyCell
    /\ registry = EmptyRegistry
    /\ loadCall = NoLoad
    /\ loadOk = FALSE
    /\ api = "none"
    /\ calls = <<>>
    /\ apiRet = OkUnit
    /\ aborted = FALSE
    /\ pc = "idle"
    /\ req = NoRequest
    /\ rows = 0
    /\ cursor = NoCursor
    /\ hist = <<>>
    /\ main = NoMain
    /\ loader = [t \in Loaders |-> LoaderIdle]
    /\ inflight = [t \in Threads |-> NoFlight]
    /\ platform = HostPlatform
    /\ extension = ""

\* ------------------------------------------------------------------------
\* Operations of the library, called by an application in any order
\* ------------------------------------------------------------------------

LoadDriverFrom(lib_dir) ==
    LET r == load_driver(library, registry, lib_dir)
    IN  /\ ~aborted
        /\ library' = r.library
        /\ registry' = r.registry
        /\ loadCall' = [called |-> TRUE, opened_before |-> library.set,
                        opened |-> r.opened, dropped |-> r.dropped,
                        result |-> r.result]
        /\ loadOk' = (loadOk \/ r.result.kind = "Ok")
        /\ UNCHANGED <<callVars, reqVars, thrVars, extVars>>

LoadDriver == \E lib_dir \in LibDirs : LoadDriverFrom(lib_dir)

\* An operation that made the wrapper calls cs and returned ret.
Operation(name, cs, ret) ==
    /\ ~aborted
    /\ api' = name
    /\ calls' = cs
    /\ apiRet' = ret
    /\ aborted' = Fatal(ret)
    /\ UNCHANGED <<libVars, reqVars, thrVars, extVars>>

\* A public wrapper called on its own.
Wrapper(name, w, nat) == Operation(name, << Call(name, w, nat) >>, w.ret)

CreateConnection ==
    \E connect_params_json \in InputTexts, n1 \in NatCombineJSON, ub \in UBOutcomes :
      LET w1 == go_combine_json_wrapper(registry, connect_params_json, ClientJson, n1, ub)
      IN  \E n2 \in WhenReached(w1.ret, NatParseParams) :
            LET w2 == IF w1.ret.kind = "Ok"
                      THEN go_parse_params_wrapper(registry, w1.ret.texts[1], n2)
                      ELSE w1
            IN  \E n3 \in WhenReached(w2.ret, NatCreateConnection) :
                  LET r == create_connection(registry, connect_params_json, n1, n2, n3, ub)
                  IN  Operation("create_connection", r.calls, r.ret)

CloseConnection ==
    \E h \in HandlePairs, nat \in NatError :
        Wrapper("go_close_connection_wrapper",
                go_close_connection_wrapper(registry, h[1], h[2], nat), nat)

CancelRequest ==
    \E h \in HandlePairs, nat \in NatError :
        Wrapper("go_cancel_request_wrapper",
                go_cancel_request_wrapper(registry, h[1], h[2], nat), nat)

CreateRows ==
    \E h \in HandlePairs, request_text \in InputTexts,
       bind_values \in InputTexts, nat \in NatCreateRows :
        Wrapper("rustgo_create_rows_wrapper",
                rustgo_create_rows_wrapper(registry, h[1], h[2],
                                           request_text, bind_values, nat), nat)

ResultMetaData ==
    \E h \in HandlePairs, nat \in NatResultMetaData, ub \in UBOutcomes :
        Wrapper("rustgo_result_metadata_wrapper",
                rustgo_result_metadata_wrapper(registry, h[1], h[2], nat, ub), nat)

FetchRow ==
    \E h \in HandlePairs, nat \in NatFetchRow :
        Wrapper("rustgo_fetch_row_wrapper",
                rustgo_fetch_row_wrapper(registry, h[1], h[2], nat), nat)

NextResult ==
    \E h \in HandlePairs, nat \in NatNextResult :
        Wrapper("go_next_result_wrapper",
                go_next_result_wrapper(registry, h[1], h[2], nat), nat)

CloseRows ==
    \E h \in HandlePairs, nat \in NatError :
        Wrapper("go_close_rows_wrapper",
                go_close_rows_wrapper(registry, h[1], h[2], nat), nat)

\* The values goCloseRows writes are chosen only if createRows succeeded.
SimpleRequestNats(u_log, conn_handle) ==
    { n \in NatCreateRows \X NatError :
        n[2] \in WhenReached(rustgo_create_rows_wrapper(registry, u_log, conn_handle,
                                                        <<>>, <<>>, n[1]).ret, NatError) }

Commit ==
    \E h \in HandlePairs :
      \E n \in SimpleRequestNats(h[1], h[2]) :
        LET r == commit(registry, h[1], h[2], n[1], n[2])
        IN  Operation("commit", r.calls, r.ret)

Rollback ==
    \E h \in HandlePairs :
      \E n \in SimpleRequestNats(h[1], h[2]) :
        LET r == rollback(registry, h[1], h[2], n[1], n[2])
        IN  Operation("rollback", r.calls, r.ret)

SetAutocommit ==
    \E h \in HandlePairs, b \in BOOLEAN :
      \E n \in SimpleRequestNats(h[1], h[2]) :
        LET r == set_autocommit(registry, h[1], h[2], b, n[1], n[2])
        IN  Operation("set_autocommit", r.calls, r.ret)

Next ==
    \/ LoadDriver
    \/ CreateConnection
    \/ CloseConnection
    \/ CancelRequest
    \/ CreateRows
    \/ ResultMetaData
    \/ FetchRow
    \/ NextResult
    \/ CloseRows
    \/ Commit
    \/ Rollback
    \/ SetAutocommit

Spec == Init /\ [][Next]_vars


\* ------------------------------------------------------------------------
\* The native cursor behind a rows handle (the environment of
\* execute_request): a request has one or more results, each with some
\* rows; any call may instead report an error, which leaves the cursor
\* where it is.
\* ------------------------------------------------------------------------

ResultShapes == UNION { [1..n -> 0..MaxRows] : n \in 1..MaxResults }

NewCursor(shape) == [results |-> shape, res |-> 1, row |-> 0]

\* A call that reports an error: the error buffer, the other outputs as
\* the wrapper initialised them.
ErrorBuffer == Buffer(NativeText("error"))
FailCreateRows == [error |-> ErrorBuffer, rows_handle |-> 0]
FailResultMetaData ==
    [error |-> ErrorBuffer, activity_count |-> 0, activity_type |-> 0,
     activity_name |-> NullPtr, column_metadata |-> NullPtr]
FailFetchRow == [error |-> ErrorBuffer, column_values |-> NullPtr]
FailNextResult == [error |-> ErrorBuffer, avail |-> 0]
FailCloseRows == [error |-> ErrorBuffer]

CursorResultMetaData(c) ==
    [nat |-> [error |-> NullPtr, activity_count |-> c.results[c.res], activity_type |-> 0,
              activity_name |-> Buffer(NativeText("activity_name")),
              column_metadata |-> Buffer(NativeText("column_metadata"))],
     cursor |-> c]

CursorFetchRow(c) ==
    IF c.row < c.results[c.res]
    THEN [nat |-> [error |-> NullPtr, column_values |-> Buffer(NativeText("column_values"))],
          cursor |-> [c EXCEPT !.row = @ + 1]]
    ELSE [nat |-> [error |-> NullPtr, column_values |-> NullPtr], cursor |-> c]

CursorNextResult(c) ==
    IF c.res < Len(c.results)
    THEN [nat |-> [error |-> NullPtr, avail |-> 89],
          cursor |-> [c EXCEPT !.res = @ + 1, !.row = 0]]
    ELSE [nat |-> [error |-> NullPtr, avail |-> 78], cursor |-> c]

\* ------------------------------------------------------------------------
\* execute_request (sample.rs 5-67, the same text in cmdline.rs 5-67)
\* ------------------------------------------------------------------------

\* Where execute_request goes after each wrapper call.
AfterCreateRows(ret) ==
    IF ret.kind = "Ok" THEN "result_metadata" ELSE "returned"

AfterResultMetaData(ret) ==
    IF ret.kind = "Ok" THEN "fetch_row" ELSE "returned"

\* A loop that leaves the row loop after its first fetch.
AfterFetchRowOnce(ret) == "next_result"

AfterFetchRow(ret) ==
    IF ret.kind = "Ok" /\ ret.tag = "Some" THEN "fetch_row" ELSE "next_result"

\* A loop that fetches from the next result without asking for its metadata.
AfterNextResultNoMetadata(ret) ==
    IF ret.kind = "Ok" /\ ret.tag = "true" THEN "fetch_row" ELSE "close_rows"

AfterNextResult(ret) ==
    IF ret.kind = "Ok" /\ ret.tag = "true" THEN "result_metadata" ELSE "close_rows"

AfterCloseRows(ret) == "returned"

\* How a wrapper call ended, for the history of the request.
Outcome(op, ret) ==
    IF ret.kind # "Ok" THEN ret.kind
    ELSE IF op = "fetch_row" THEN (IF ret.tag = "Some" THEN "Row" ELSE "None")
    ELSE IF op = "next_result" THEN (IF ret.tag = "true" THEN "True" ELSE "False")
    ELSE "Ok"

RequestStep(op, name, w, nat, next, cur) ==
    /\ ~aborted
    /\ api' = "execute_request"
    /\ calls' = << Call(name, w, nat) >>
    /\ apiRet' = w.ret
    /\ aborted' = Fatal(w.ret)
    /\ hist' = Append(hist, [op |-> op, out |-> Outcome(op, w.ret)])
    /\ pc' = IF Fatal(w.ret) THEN "aborted" ELSE next
    /\ cursor' = cur
    /\ UNCHANGED <<libVars, req, main, thrVars, extVars>>

\* sample.rs 5-9: main calls execute_request on its connection.
ExecuteRequest ==
    \E h \in HandlePairs, request_text \in InputTexts, bind_values \in InputTexts :
        /\ ~aborted
        /\ pc \in {"idle", "returned"}
        /\ pc' = "create_rows"
        /\ req' = [u_log |-> h[1], conn_handle |-> h[2],
                   request_text |-> request_text, bind_values |-> bind_values]
        /\ rows' = 0
        /\ cursor' = NoCursor
        /\ hist' = <<>>
        /\ UNCHANGED <<libVars, callVars, main, thrVars, extVars>>

\* sample.rs 11-17
ExecCreateRows ==
    \E fail \in BOOLEAN, shape \in ResultShapes, handle \in Handles :
        LET nat == IF fail THEN FailCreateRows
                   ELSE [error |-> NullPtr, rows_handle |-> handle]
            w == rustgo_create_rows_wrapper(registry, req.u_log, req.conn_handle,
                                            req.request_text, req.bind_values, nat)
        IN  /\ pc = "create_rows"
            /\ RequestStep("create_rows", "rustgo_create_rows_wrapper", w, nat,
                           AfterCreateRows(w.ret),
                           IF w.ret.kind = "Ok" THEN NewCursor(shape) ELSE NoCursor)
            /\ rows' = IF w.ret.kind = "Ok" THEN w.ret.nums[1] ELSE rows

\* sample.rs 20-31
ExecResultMetaData ==
    \E fail \in BOOLEAN :
        LET n == CursorResultMetaData(cursor)
            nat == IF fail THEN FailResultMetaData ELSE n.nat
            w == rustgo_result_metadata_wrapper(registry, req.u_log, rows, nat, "segv")
        IN  /\ pc = "result_metadata"
            /\ RequestStep("result_metadata", "rustgo_result_metadata_wrapper", w, nat,
                           AfterResultMetaData(w.ret), cursor)
            /\ rows' = rows

\* sample.rs 33-47
ExecFetchRow ==
    \E fail \in BOOLEAN :
        LET n == CursorFetchRow(cursor)
            nat == IF fail THEN FailFetchRow ELSE n.nat
            w == rustgo_fetch_row_wrapper(registry, req.u_log, rows, nat)
        IN  /\ pc = "fetch_row"
            /\ RequestStep("fetch_row", "rustgo_fetch_row_wrapper", w, nat,
                           AfterFetchRow(w.ret), IF fail THEN cursor ELSE n.cursor)
            /\ rows' = rows

\* sample.rs 50-61
ExecNextResult ==
    \E fail \in BOOLEAN :
        LET n == CursorNextResult(cursor)
            nat == IF fail THEN FailNextResult ELSE n.nat
            w == go_next_result_wrapper(registry, req.u_log, rows, nat)
        IN  /\ pc = "next_result"
            /\ RequestStep("next_result", "go_next_result_wrapper", w, nat,
                           AfterNextResult(w.ret), IF fail THEN cursor ELSE n.cursor)
            /\ rows' = rows

\* sample.rs 64-66
ExecCloseRows ==
    \E fail \in BOOLEAN :
        LET nat == IF fail THEN FailCloseRows ELSE [error |-> NullPtr]
            w == go_close_rows_wrapper(registry, req.u_log, rows, nat)
        IN  /\ pc = "close_rows"
            /\ RequestStep("close_rows", "go_close_rows_wrapper", w, nat,
                           AfterCloseRows(w.ret), cursor)
            /\ rows' = rows

\* main reaches execute_request only after load_driver returned Ok
\* (sample.rs 81-84).
InitRequest ==
    /\ \E lib_dir \in LibDirs :
         LET r == load_driver(EmptyCell, EmptyRegistry, lib_dir)
         IN  /\ r.result.kind = "Ok"
             /\ library = r.library
             /\ registry = r.registry
             /\ loadCall = [called |-> TRUE, opened_before |-> FALSE,
                            opened |-> r.opened, dropped |-> r.dropped,
                            result |-> r.result]
    /\ loadOk = TRUE
    /\ api = "none"
    /\ calls = <<>>
    /\ apiRet = OkUnit
    /\ aborted = FALSE
    /\ pc = "idle"
    /\ req = NoRequest
    /\ rows = 0
    /\ cursor = NoCursor
    /\ hist = <<>>
    /\ main = NoMain
    /\ loader = [t \in Loaders |-> LoaderIdle]
    /\ inflight = [t \in Threads |-> NoFlight]
    /\ platform = HostPlatform
    /\ extension = ""

NextRequest ==
    \/ ExecuteRequest
    \/ ExecCreateRows
    \/ ExecResultMetaData
    \/ ExecFetchRow
    \/ ExecNextResult
    \/ ExecCloseRows

SpecRequest == InitRequest /\ [][NextRequest]_vars


\* ------------------------------------------------------------------------
\* main of the sample programs (sample.rs 69-341, cmdline.rs 69-110)
\* ------------------------------------------------------------------------

\* The texts main takes from the command line: env::args yields no NUL.
ArgTexts == { t \in InputTexts : ~HasNul(t) }

\* The rows handles the execute_request call that has just returned left
\* open: its create_rows call returned a handle and it made no close_rows
\* call.
UnclosedRows ==
    IF /\ \E i \in DOMAIN hist : hist[i].op = "create_rows" /\ hist[i].out = "Ok"
       /\ \A i \in DOMAIN hist : hist[i].op # "close_rows"
    THEN 1 ELSE 0

\* sample.rs 81-84: load_driver, and return when it fails.
MainLoadDriver ==
    \E lib_dir \in LibDirs :
        LET r == load_driver(library, registry, lib_dir)
        IN  /\ ~aborted
            /\ main.pc = "load_driver"
            /\ library' = r.library
            /\ registry' = r.registry
            /\ loadCall' = [called |-> TRUE, opened_before |-> library.set,
                            opened |-> r.opened, dropped |-> r.dropped,
                            result |-> r.result]
            /\ loadOk' = (loadOk \/ r.result.kind = "Ok")
            /\ main' = [main EXCEPT !.pc = IF r.result.kind = "Ok"
                                           THEN "create_connection" ELSE "exit"]
            /\ UNCHANGED <<callVars, pc, req, rows, cursor, hist, thrVars, extVars>>

\* sample.rs 86-92: create_connection, and return when it fails.
MainCreateConnection ==
    \E connect_params_json \in ArgTexts, n1 \in NatCombineJSON, ub \in UBOutcomes :
      LET w1 == go_combine_json_wrapper(registry, connect_params_json, ClientJson, n1, ub)
      IN  \E n2 \in WhenReached(w1.ret, NatParseParams) :
            LET w2 == IF w1.ret.kind = "Ok"
                      THEN go_parse_params_wrapper(registry, w1.ret.texts[1], n2)
                      ELSE w1
            IN  \E n3 \in WhenReached(w2.ret, NatCreateConnection) :
                  LET r == create_connection(registry, connect_params_json, n1, n2, n3, ub)
                  IN  /\ ~aborted
                      /\ main.pc = "create_connection"
                      /\ api' = "create_connection"
                      /\ calls' = r.calls
                      /\ apiRet' = r.ret
                      /\ aborted' = Fatal(r.ret)
                      /\ main' = IF r.ret.kind = "Ok"
                                 THEN [main EXCEPT !.pc = "requests", !.connected = TRUE,
                                                   !.u_log = r.ret.nums[1],
                                                   !.conn_handle = r.ret.nums[2]]
                                 ELSE [main EXCEPT !.pc = "exit"]
                      /\ UNCHANGED <<libVars, pc, req, rows, cursor, hist, thrVars, extVars>>

\* sample.rs 95-336, cmdline.rs 96-105: the next execute_request call on
\* the connection, after the one before it has returned.
MainExecuteRequest ==
    \E request_text \in ArgTexts, bind_values \in ArgTexts :
        /\ ~aborted
        /\ main.pc = "requests"
        /\ main.requests < MaxRequests
        /\ pc \in {"idle", "returned"}
        /\ pc' = "create_rows"
        /\ req' = [u_log |-> main.u_log, conn_handle |-> main.conn_handle,
                   request_text |-> request_text, bind_values |-> bind_values]
        /\ rows' = 0
        /\ cursor' = NoCursor
        /\ hist' = <<>>
        /\ main' = [main EXCEPT !.requests = @ + 1, !.unclosed = @ + UnclosedRows]
        /\ UNCHANGED <<libVars, callVars, thrVars, extVars>>

\* sample.rs 338-340, cmdline.rs 107-109: after the last request,
\* go_close_connection_wrapper; its error is printed and main ends.
MainCloseConnection ==
    \E nat \in NatError :
        LET w == go_close_connection_wrapper(registry, main.u_log, main.conn_handle, nat)
        IN  /\ ~aborted
            /\ main.pc = "requests"
            /\ pc \in {"idle", "returned"}
            /\ api' = "go_close_connection_wrapper"
            /\ calls' = << Call("go_close_connection_wrapper", w, nat) >>
            /\ apiRet' = w.ret
            /\ aborted' = Fatal(w.ret)
            /\ main' = [main EXCEPT !.pc = "exit", !.closes = @ + 1,
                                    !.unclosed = @ + UnclosedRows]
            /\ UNCHANGED <<libVars, pc, req, rows, cursor, hist, thrVars, extVars>>

NextMain ==
    \/ MainLoadDriver
    \/ MainCreateConnection
    \/ MainExecuteRequest
    \/ ExecCreateRows
    \/ ExecResultMetaData
    \/ ExecFetchRow
    \/ ExecNextResult
    \/ ExecCloseRows
    \/ MainCloseConnection

SpecMain == Init /\ [][NextMain]_vars

\* ------------------------------------------------------------------------
\* get_extension (lib.rs 359-393)
\* ------------------------------------------------------------------------

\* str::to_lowercase, on ASCII text.
ToLowercase(text) ==
    [i \in DOMAIN text |-> IF text[i] \in 65..90 THEN text[i] + 32 ELSE text[i]]

\* str::starts_with
StartsWith(text, prefix) ==
    Len(text) >= Len(prefix) /\ SubSeq(text, 1, Len(prefix)) = prefix

\* str::trim: white space removed at both ends.
WhiteSpace == {9, 10, 11, 12, 13, 32}
RECURSIVE TrimStart(_)
TrimStart(text) ==
    IF text # <<>> /\ Head(text) \in WhiteSpace THEN TrimStart(Tail(text)) ELSE text
RECURSIVE TrimEnd(_)
TrimEnd(text) ==
    IF text # <<>> /\ text[Len(text)] \in WhiteSpace
    THEN TrimEnd(SubSeq(text, 1, Len(text) - 1)) ELSE text
Trim(text) == TrimEnd(TrimStart(text))

\* A get_extension that tests the FIPS flag before the pointer width.
get_extension_fips_first(p) ==
    LET os_type == ToLowercase(p.os)
        cpu == ToLowercase(p.arch)
        b_arm == StartsWith(cpu, <<97, 114, 109>>) \/ StartsWith(cpu, <<97, 97, 114, 99, 104>>)
        b_power == cpu = <<112, 112, 99, 54, 52, 108, 101>>
        b_fips == os_type = <<108, 105, 110, 117, 120>> /\ Trim(p.fips_file) = <<49>>
        n_bits == p.bits
    IN  IF os_type = <<119, 105, 110, 100, 111, 119, 115>> THEN (IF n_bits = 32 THEN "x86.dll" ELSE "dll")
        ELSE IF os_type = <<109, 97, 99, 111, 115>> THEN "dylib"
        ELSE IF os_type = <<97, 105, 120>> THEN "aix.so"
        ELSE IF b_arm /\ b_fips THEN "arm.fips.so"
        ELSE IF b_arm THEN "arm.so"
        ELSE IF b_power THEN "power.so"
        ELSE IF b_fips THEN "fips.so"
        ELSE IF n_bits = 32 THEN "x86.so"
        ELSE "so"

get_extension(p) ==
    LET os_type == ToLowercase(p.os)
        cpu == ToLowercase(p.arch)
        b_arm == StartsWith(cpu, <<97, 114, 109>>) \/ StartsWith(cpu, <<97, 97, 114, 99, 104>>)
        b_power == cpu = <<112, 112, 99, 54, 52, 108, 101>>
        b_fips == os_type = <<108, 105, 110, 117, 120>> /\ Trim(p.fips_file) = <<49>>
        n_bits == p.bits
    IN  IF os_type = <<119, 105, 110, 100, 111, 119, 115>> THEN (IF n_bits = 32 THEN "x86.dll" ELSE "dll")
        ELSE IF os_type = <<109, 97, 99, 111, 115>> THEN "dylib"
        ELSE IF os_type = <<97, 105, 120>> THEN "aix.so"
        ELSE IF b_arm /\ b_fips THEN "arm.fips.so"
        ELSE IF b_arm THEN "arm.so"
        ELSE IF b_power THEN "power.so"
        ELSE IF n_bits = 32 THEN "x86.so"
        ELSE IF b_fips THEN "fips.so"
        ELSE "so"

\* The targets: operating system, CPU, pointer width, and what the FIPS
\* file holds: unreadable, "0\n", "1\n" or "1".
OsNames == { <<119, 105, 110, 100, 111, 119, 115>>, <<109, 97, 99, 111, 115>>, <<97, 105, 120>>, <<108, 105, 110, 117, 120>>, <<102, 114, 101, 101, 98, 115, 100>> }
CpuNames == { <<120, 56, 54>>, <<120, 56, 54, 95, 54, 52>>, <<97, 114, 109>>, <<97, 97, 114, 99, 104, 54, 52>>, <<112, 112, 99, 54, 52, 108, 101>>, <<112, 111, 119, 101, 114, 112, 99, 54, 52>> }
FipsFiles == { <<>>, <<48, 10>>, <<49, 10>>, <<49>> }
Platforms ==
    { Platform(os, arch, bits, f) :
        os \in OsNames, arch \in CpuNames, bits \in {32, 64}, f \in FipsFiles }

GetExtension ==
    /\ extension' = get_extension(platform)
    /\ UNCHANGED <<libVars, callVars, reqVars, thrVars, platform>>

InitExtension ==
    /\ library = EmptyCell
    /\ registry = EmptyRegistry
    /\ loadCall = NoLoad
    /\ loadOk = FALSE
    /\ api = "none"
    /\ calls = <<>>
    /\ apiRet = OkUnit
    /\ aborted = FALSE
    /\ pc = "idle"
    /\ req = NoRequest
    /\ rows = 0
    /\ cursor = NoCursor
    /\ hist = <<>>
    /\ main = NoMain
    /\ loader = [t \in Loaders |-> LoaderIdle]
    /\ inflight = [t \in Threads |-> NoFlight]
    /\ platform \in Platforms
    /\ extension = ""

NextExtension == GetExtension

SpecExtension == InitExtension /\ [][NextExtension]_vars

\* ------------------------------------------------------------------------
\* Threads: one thread inside load_driver, the others calling wrappers.
\* load_driver publishes one OnceLock entry per match block; a wrapper looks
\* its entry point up, is inside the native call for a while, and looks
\* goFreePointer up when the call has returned.  No wrapper takes a lock.
\* ------------------------------------------------------------------------

\* OnceLock::get: Some once the cell was set.
OnceLockGetAlways(cell) == TRUE

OnceLockGet(cell) == cell.set

\* The wrappers the calling threads use, the entry point each looks up and
\* the handle it passes besides the log handle.
ThreadOps == {"go_cancel_request_wrapper", "rustgo_fetch_row_wrapper"}
ThreadSession == [u_log |-> 1, conn_handle |-> 2, rows_handle |-> 1]

EntryOf(op) ==
    IF op = "go_cancel_request_wrapper" THEN "goCancelRequest" ELSE "rustgoFetchRow"
HandleOf(op) ==
    IF op = "go_cancel_request_wrapper"
    THEN ThreadSession.conn_handle ELSE ThreadSession.rows_handle
NatsOf(op) ==
    IF op = "go_cancel_request_wrapper" THEN NatError ELSE NatFetchRow
WrapperOf(op, reg, u_log, handle, nat) ==
    IF op = "go_cancel_request_wrapper"
    THEN go_cancel_request_wrapper(reg, u_log, handle, nat)
    ELSE rustgo_fetch_row_wrapper(reg, u_log, handle, nat)

\* A wrapper that waits until no other thread is inside a native call.
EnterNativeSerialized(fl, t, op) ==
    [ok |-> \A u \in Threads : fl[u] = NoFlight,
     inflight |-> [fl EXCEPT ![t] = [op |-> op, u_log |-> ThreadSession.u_log,
                                     handle |-> HandleOf(op)]]]

\* lib.rs 207-210: the wrapper calls the entry point straight away, whatever
\* the other threads are doing.
EnterNative(fl, t, op) ==
    [ok |-> TRUE,
     inflight |-> [fl EXCEPT ![t] = [op |-> op, u_log |-> ThreadSession.u_log,
                                     handle |-> HandleOf(op)]]]

\* The value load_driver returns to its thread.
LoadReturns(t, opened_before, opened, dropped, result) ==
    /\ loadCall' = [called |-> TRUE, opened_before |-> opened_before,
                    opened |-> opened, dropped |-> dropped, result |-> result]
    /\ loadOk' = (loadOk \/ result.kind = "Ok")
    /\ loader' = [loader EXCEPT ![t] =
                      [at |-> 0, lib |-> NoFile,
                       oks |-> IF result.kind = "Ok" THEN @.oks + 1 ELSE @.oks]]

\* lib.rs 398-423: open the library, set the library slot, look the eleven
\* symbols up.
LoadBegin(t, lib_dir) ==
    /\ ~aborted
    /\ loader[t].at = 0
    /\ IF ~LibraryNew(lib_dir)
       THEN /\ LoadReturns(t, library.set, FALSE, FALSE, LoadErr(<<"Could not load library">>))
            /\ UNCHANGED library
       ELSE LET s == SetLibrary(library, lib_dir)
            IN  IF ~s.ok
                THEN /\ LoadReturns(t, TRUE, TRUE, TRUE, s.result)
                     /\ UNCHANGED library
                ELSE /\ library' = s.cell
                     /\ loader' = [loader EXCEPT ![t] = [@ EXCEPT !.at = 1, !.lib = lib_dir]]
                     /\ UNCHANGED <<loadCall, loadOk>>
    /\ UNCHANGED <<registry, callVars, reqVars, inflight, extVars>>

\* lib.rs 425-524: one match block, then the next one or the return.
LoadPublish(t) ==
    /\ ~aborted
    /\ loader[t].at \in DOMAIN SymbolOrder
    /\ LET name == SymbolOrder[loader[t].at]
           s == OnceLockSet(registry[name], loader[t].lib.build)
       IN  IF name \notin loader[t].lib.exports
           THEN /\ LoadReturns(t, FALSE, TRUE, FALSE, LoadErr(<<"Could not link to function", name>>))
                /\ UNCHANGED registry
           ELSE IF ~s.ok
           THEN /\ LoadReturns(t, FALSE, TRUE, FALSE, LoadErr(<<name, "already set">>))
                /\ UNCHANGED registry
           ELSE /\ registry' = [registry EXCEPT ![name] = s.cell]
                /\ IF loader[t].at = Len(SymbolOrder)
                   THEN LoadReturns(t, FALSE, TRUE, FALSE, LoadOk)
                   ELSE /\ loader' = [loader EXCEPT ![t].at = @ + 1]
                        /\ UNCHANGED <<loadCall, loadOk>>
    /\ UNCHANGED <<library, callVars, reqVars, inflight, extVars>>

\* A thread calls a wrapper: the lookup of its entry point and, when that is
\* published, the entry into the native call; else the unwrap panics.
CallBegin(t, op) ==
    /\ ~aborted
    /\ inflight[t] = NoFlight
    /\ IF OnceLockGet(registry[EntryOf(op)])
       THEN LET e == EnterNative(inflight, t, op)
            IN  /\ e.ok
                /\ inflight' = e.inflight
                /\ UNCHANGED callVars
       ELSE LET nat == CHOOSE n \in NatsOf(op) : n.error.null
                w == WrapperOf(op, registry, ThreadSession.u_log, HandleOf(op), nat)
            IN  /\ api' = op
                /\ calls' = << Call(op, w, nat) >>
                /\ apiRet' = w.ret
                /\ aborted' = Fatal(w.ret)
                /\ UNCHANGED inflight
    /\ UNCHANGED <<libVars, reqVars, loader, extVars>>

\* The native call of thread t returns and the wrapper finishes: it copies
\* what it was handed and frees it, looking goFreePointer up at that point.
CallReturn(t) ==
    \E nat \in NatsOf(inflight[t].op) :
        LET f == inflight[t]
            w == WrapperOf(f.op, registry, f.u_log, f.handle, nat)
        IN  /\ ~aborted
            /\ f # NoFlight
            /\ api' = f.op
            /\ calls' = << Call(f.op, w, nat) >>
            /\ apiRet' = w.ret
            /\ aborted' = Fatal(w.ret)
            /\ inflight' = [inflight EXCEPT ![t] = NoFlight]
            /\ UNCHANGED <<libVars, reqVars, loader, extVars>>

NextThreads ==
    \/ \E t \in Loaders, lib_dir \in LibDirs : LoadBegin(t, lib_dir)
    \/ \E t \in Loaders : LoadPublish(t)
    \/ \E t \in Threads, op \in ThreadOps : CallBegin(t, op)
    \/ \E t \in Threads : CallReturn(t)

SpecThreads == Init /\ [][NextThreads]_vars


\* ------------------------------------------------------------------------
\* Properties
\* ------------------------------------------------------------------------

\* The wrapper call c invoked its native entry point.
NativeReached(c) == c.ev # <<>>
\* ... and the native call returned a non-null error pointer.
NativeError(c) == NativeReached(c) /\ ~c.nat.error.null

EventsOf(c, kind, out) ==
    { i \in DOMAIN c.ev : c.ev[i].ev = kind /\ c.ev[i].what = out }

\* The output parameters of each wrapper's native call that hold a buffer.
OutBuffers(op) ==
    CASE op = "go_combine_json_wrapper" -> {"error", "combined"}
      [] op = "rustgo_result_metadata_wrapper" -> {"error", "activity_name", "column_metadata"}
      [] op = "rustgo_fetch_row_wrapper" -> {"error", "column_values"}
      [] OTHER -> {"error"}

LinkError(name) == LoadErr(<<"Could not link to function", name>>)

\* A load_driver call opened the library and failed to resolve a symbol.
LinkFailed == library.set /\ ~loadOk

\* C1: when load_driver opens the library and an entry point cannot be
\* resolved, it returns the link error naming that entry point, no entry
\* point is published afterwards, and no wrapper call reaches native code.
C1_AllOrNothing ==
    LinkFailed =>
        /\ ~loadCall.opened_before =>
              \E e \in EntryPoints \ library.val.exports : loadCall.result = LinkError(e)
        /\ \A e \in EntryPoints : ~registry[e].set
        /\ \A i \in DOMAIN calls : ~NativeReached(calls[i])

AlreadySet == LoadErr(<<"Library already set">>)
CouldNotLoad == LoadErr(<<"Could not load library">>)

ErrorBranchAsClaimed(c) ==
    /\ c.ret = Err(ToStringLossy(c.nat.error.text))
    /\ \E r \in EventsOf(c, "read", "error") :
         /\ EventsOf(c, "free", "error") = {Len(c.ev)}
         /\ r < Len(c.ev)
         /\ c.ev[Len(c.ev)].ptr = c.nat.error
    /\ \A i \in DOMAIN c.ev : c.ev[i].ev = "free" => c.ev[i].what = "error"
    /\ \A i \in DOMAIN c.ev : c.ev[i].ev = "read" => c.ev[i].what = "error"

\* C3 as stated: every wrapper whose native call returns a non-null error
\* pointer returns Err with the error text, frees the error buffer exactly
\* once after copying it, and reads no other output parameter.
C3_ErrorBranch ==
    \A i \in DOMAIN calls : NativeError(calls[i]) => ErrorBranchAsClaimed(calls[i])

\* C3 amended: on a non-null error pointer the wrapper copies the error
\* text and reads no other output parameter, except that
\* go_parse_params_wrapper reads the log output (the log handle of its
\* free call).  With goFreePointer published it then frees the error
\* buffer exactly once, as its last step, and returns Err with the text;
\* with goFreePointer not published it panics there and frees nothing.
C3_ErrorBranchAmended ==
    \A i \in DOMAIN calls :
        LET c == calls[i]
        IN  NativeError(c) =>
              /\ Cardinality(EventsOf(c, "read", "error")) = 1
              /\ \A k \in DOMAIN c.ev :
                    c.ev[k].ev = "read" =>
                        \/ c.ev[k].what = "error"
                        \/ c.op = "go_parse_params_wrapper" /\ c.ev[k].what = "log"
              /\ c.op = "go_parse_params_wrapper" => EventsOf(c, "read", "log") # {}
              /\ IF registry["goFreePointer"].set
                 THEN /\ c.ret = Err(ToStringLossy(c.nat.error.text))
                      /\ EventsOf(c, "free", "error") = {Len(c.ev)}
                      /\ c.ev[Len(c.ev)].ptr = c.nat.error
                      /\ \A k \in DOMAIN c.ev : c.ev[k].ev = "free" => k = Len(c.ev)
                      /\ \A r \in EventsOf(c, "read", "error") : r < Len(c.ev)
                 ELSE /\ c.ret = Panic
                      /\ \A k \in DOMAIN c.ev : c.ev[k].ev # "free"

C3_Witness ==
    /\ loadOk
    /\ \E i \in DOMAIN calls :
         /\ calls[i].op = "go_parse_params_wrapper"
         /\ NativeError(calls[i])
         /\ calls[i].ret.kind = "Err"
    /\ apiRet.kind = "Err"

\* C4: every non-null buffer a native call hands back is freed exactly once
\* and not read after the free, by the time the wrapper returns, on the
\* success path and on the error path.
C4_EveryBufferFreedOnce ==
    \A i \in DOMAIN calls :
        LET c == calls[i]
        IN  (NativeReached(c) /\ c.ret.kind \in {"Ok", "Err"}) =>
              \A out \in OutBuffers(c.op) :
                  ~c.nat[out].null =>
                      /\ Cardinality(EventsOf(c, "free", out)) = 1
                      /\ \A f \in EventsOf(c, "free", out) :
                            \A r \in EventsOf(c, "read", out) : r < f

\* ---- execute_request ----

HistOf(op) == { i \in DOMAIN hist : hist[i].op = op }
HistOfOut(op, out) == { i \in HistOf(op) : hist[i].out = out }
CursorOps == {"result_metadata", "fetch_row", "next_result"}
NoErrorReported == \A i \in DOMAIN hist : hist[i].out \notin {"Err", "Panic", "Segv"}

RECURSIVE SumRows(_)
SumRows(results) ==
    IF results = <<>> THEN 0 ELSE Head(results) + SumRows(Tail(results))

\* C5: when execute_request has returned and its create_rows call returned
\* a rows handle, close_rows was called exactly once on that handle, on
\* every exit path.
C5_CloseRowsOnce ==
    (pc = "returned" /\ HistOfOut("create_rows", "Ok") # {}) =>
        Cardinality(HistOf("close_rows")) = 1

\* C6: for a cursor of R results with r_1..r_R rows and no error reported,
\* execute_request makes R result_metadata calls, r_1 + .. + r_R fetch_row
\* calls that return a row, R end-of-rows fetches, R next_result calls of
\* which only the last returns false, then one close_rows call, its last.
C6_RoundTrip ==
    (pc = "returned" /\ NoErrorReported) =>
        LET R == Len(cursor.results)
        IN  /\ Cardinality(HistOf("create_rows")) = 1
            /\ Cardinality(HistOf("result_metadata")) = R
            /\ Cardinality(HistOfOut("fetch_row", "Row")) = SumRows(cursor.results)
            /\ Cardinality(HistOfOut("fetch_row", "None")) = R
            /\ Cardinality(HistOf("fetch_row")) = SumRows(cursor.results) + R
            /\ Cardinality(HistOf("next_result")) = R
            /\ Cardinality(HistOfOut("next_result", "False")) = 1
            /\ \A f \in HistOfOut("next_result", "False") :
                   \A t \in HistOf("next_result") : t <= f
            /\ HistOf("close_rows") = {Len(hist)}
            /\ Len(hist) = 2 + 3 * R + SumRows(cursor.results)

C6_Witness ==
    /\ pc = "returned"
    /\ NoErrorReported
    /\ Len(cursor.results) = MaxResults
    /\ cursor.results[1] = MaxRows
    /\ cursor.results[MaxResults] = 1

\* C7: once a result_metadata, fetch_row or next_result call of a request
\* has returned an error, execute_request makes no further result_metadata,
\* fetch_row or next_result call on that handle.
C7_FailedAbsorbing ==
    \A i \in DOMAIN hist, j \in DOMAIN hist :
        (i < j /\ hist[i].op \in CursorOps /\ hist[i].out = "Err") =>
            hist[j].op \notin CursorOps

\* C8: every fetch_row call follows a successful result_metadata call made
\* for the current result, that is with no create_rows or next_result call
\* in between; after next_result has returned false the only call made on
\* the handle is close_rows.
C8_MetadataBeforeFetch ==
    /\ \A i \in HistOf("fetch_row") :
          \E m \in HistOfOut("result_metadata", "Ok") :
              /\ m < i
              /\ \A k \in DOMAIN hist :
                    (m < k /\ k < i) => hist[k].op = "fetch_row"
    /\ \A f \in HistOfOut("next_result", "False") :
          \A k \in DOMAIN hist : f < k => hist[k].op = "close_rows"

C8_Witness ==
    /\ \E t \in HistOfOut("next_result", "True"), i \in HistOfOut("fetch_row", "Row") : t < i
    /\ \E f \in HistOfOut("next_result", "False") :
          /\ f < Len(hist)
          /\ hist[Len(hist)].op = "close_rows"

\* ---- fetch_row and panics ----

\* C9: rustgo_fetch_row_wrapper returns Ok(None) exactly when the native
\* call leaves the error pointer and the row pointer null, Ok(Some(row))
\* exactly when the error pointer is null and the row pointer is not, Err
\* only when the error pointer is not null, and never frees a null pointer.
C9_FetchRowClassification ==
    \A i \in DOMAIN calls :
        LET c == calls[i]
        IN  (c.op = "rustgo_fetch_row_wrapper" /\ NativeReached(c)) =>
              /\ (c.ret.kind = "Ok" /\ c.ret.tag = "None")
                    <=> (c.nat.error.null /\ c.nat.column_values.null)
              /\ (c.ret.kind = "Ok" /\ c.ret.tag = "Some")
                    <=> (c.nat.error.null /\ ~c.nat.column_values.null)
              /\ c.ret.kind = "Err" => ~c.nat.error.null
              /\ \A k \in DOMAIN c.ev : c.ev[k].ev = "free" => ~c.ev[k].ptr.null

\* C10: a wrapper call aborts the process only before a successful
\* load_driver; after one, no call aborts it, whatever its text inputs and
\* whatever the native side reports.
C10_PanicOnlyBeforeLoad ==
    \A i \in DOMAIN calls : calls[i].ret.kind = "Panic" => ~loadOk


\* ---- the library and the registry over the life of the process ----

\* C11: the library is opened at most once per process: no load_driver
\* call made after the library slot was set opens the library file again,
\* and no library that was opened is closed.
C11_OpenedAtMostOnce ==
    /\ ~(loadCall.opened_before /\ loadCall.opened)
    /\ ~loadCall.dropped


\* ---- threads ----

\* A load_driver call that finds every symbol is in progress.
LoadingComplete ==
    \E t \in Loaders : loader[t].at # 0 /\ loader[t].lib.exports = EntryPoints

\* C12: a successful load_driver publishes the entry points atomically: a
\* thread running next to it that found its entry point callable (it is
\* inside the native call) finds all eleven callable.
C12_AtomicPublication ==
    LoadingComplete =>
        \A t \in Threads :
            inflight[t] # NoFlight => \A e \in EntryPoints : registry[e].set

\* C14: no native entry point is invoked before load_driver has published
\* it, in every interleaving: a thread inside a native call found that
\* entry point published, a wrapper call that made a native call or a free
\* call found the entry point it used published, and a call that found its
\* entry point missing panicked without any native call.
C14_PublishedBeforeInvoked ==
    /\ \A t \in Threads :
          inflight[t] # NoFlight => registry[EntryOf(inflight[t].op)].set
    /\ \A i \in DOMAIN calls :
          LET c == calls[i]
          IN  /\ NativeReached(c) => registry[EntryOf(c.op)].set
              /\ \A k \in DOMAIN c.ev :
                    c.ev[k].ev = "free" => registry["goFreePointer"].set
              /\ (c.ret.kind = "Panic" /\ ~registry["goFreePointer"].set) =>
                    \A k \in DOMAIN c.ev : c.ev[k].ev # "free"
              /\ ~registry[EntryOf(c.op)].set => (c.ret = Panic /\ c.ev = <<>>)

C14_Witness ==
    /\ \E t \in Loaders : loader[t].at \in 2..Len(SymbolOrder)
    /\ \E t \in Threads : inflight[t].op = "go_cancel_request_wrapper"
    /\ ~registry["goFreePointer"].set
    /\ \E i \in DOMAIN calls : NativeReached(calls[i]) /\ calls[i].ret = Panic

\* C20: the cancel wrapper waits for nothing: whenever goCancelRequest is
\* published, a thread that is in no call can enter the native
\* cancelRequest call, also while another thread is inside a native call
\* on a rows handle of the same connection.
C20_CancelNotBlocked ==
    \A t \in Threads :
        (~aborted /\ inflight[t] = NoFlight /\ registry["goCancelRequest"].set) =>
            ENABLED (/\ CallBegin(t, "go_cancel_request_wrapper")
                     /\ inflight'[t].op = "go_cancel_request_wrapper"
                     /\ \A u \in Threads \ {t} : inflight'[u] = inflight[u])

C20_Witness ==
    /\ inflight[1].op = "rustgo_fetch_row_wrapper"
    /\ inflight[2].op = "go_cancel_request_wrapper"
    /\ inflight[1].u_log = inflight[2].u_log


\* C13: each registry entry is written at most once: a published entry is
\* never changed or removed by any later operation, and only a load_driver
\* call changes the registry at all (a wrapper call leaves it unchanged).
C13_WriteOnce ==
    [][ /\ \A e \in EntryPoints : registry[e].set => registry'[e] = registry[e]
        /\ registry' # registry => (\E d \in LibDirs : LoadDriverFrom(d)) ]_vars

C13_Witness ==
    /\ loadCall.opened_before
    /\ loadCall.result.kind = "Err"
    /\ registry["goCombineJSON"].set
    /\ \E i \in DOMAIN calls : NativeReached(calls[i])


\* ---- operations built on the wrappers ----

NativeCalls(c) == { k \in DOMAIN c.ev : c.ev[k].ev = "call" }
FreeCalls(c) == { k \in DOMAIN c.ev : c.ev[k].ev = "free" }

\* The log handle the claim C15 gives for the free calls of call c.
ExpectedFreeLog(c) ==
    IF c.op = "go_combine_json_wrapper" THEN 0
    ELSE IF c.op = "go_parse_params_wrapper" THEN c.nat.log
    ELSE c.ev[1].nums[1]

\* C15: every goFreePointer call passes the log handle of the native call
\* that produced the buffer: the log handle the wrapper was given, 0 in
\* go_combine_json_wrapper, and the value of the log output in
\* go_parse_params_wrapper.
C15_FreeWithLogHandle ==
    \A i \in DOMAIN calls :
        \A k \in FreeCalls(calls[i]) :
            calls[i].ev[k].log = ExpectedFreeLog(calls[i])

C15_Witness ==
    /\ api = "create_connection"
    /\ Len(calls) = 2
    /\ FreeCalls(calls[1]) # {}
    /\ FreeCalls(calls[2]) # {}
    /\ calls[2].nat.log # 0

SimpleRequestOps == {"commit", "rollback", "set_autocommit"}
\* The request texts the claim C16 gives, as ASCII bytes:
\* "{fn teradata_commit}", "{fn teradata_rollback}",
\* "{fn teradata_nativesql}{fn teradata_autocommit_on}" and "..._off}".
RequestCommit ==
    <<
      123, 102, 110, 32, 116, 101, 114, 97, 100, 97, 116, 97, 95, 99, 111, 109, 109, 105, 116, 125 >>
RequestRollback ==
    <<
      123, 102, 110, 32, 116, 101, 114, 97, 100, 97, 116, 97, 95, 114, 111, 108, 108, 98, 97, 99,
      107, 125 >>
RequestAutocommitOn ==
    <<
      123, 102, 110, 32, 116, 101, 114, 97, 100, 97, 116, 97, 95, 110, 97, 116, 105, 118, 101, 115,
      113, 108, 125, 123, 102, 110, 32, 116, 101, 114, 97, 100, 97, 116, 97, 95, 97, 117, 116, 111,
      99, 111, 109, 109, 105, 116, 95, 111, 110, 125 >>
RequestAutocommitOff ==
    <<
      123, 102, 110, 32, 116, 101, 114, 97, 100, 97, 116, 97, 95, 110, 97, 116, 105, 118, 101, 115,
      113, 108, 125, 123, 102, 110, 32, 116, 101, 114, 97, 100, 97, 116, 97, 95, 97, 117, 116, 111,
      99, 111, 109, 109, 105, 116, 95, 111, 102, 102, 125 >>
SimpleRequestTexts(a) ==
    IF a = "commit" THEN {RequestCommit}
    ELSE IF a = "rollback" THEN {RequestRollback}
    ELSE {RequestAutocommitOn, RequestAutocommitOff}

\* C16: commit, rollback and set_autocommit make one create_rows call with
\* their fixed request text and the bind values "null", then at once one
\* close_rows call on the handle it returned; a create_rows error is returned
\* without a close_rows call, and a close_rows error is returned.
C16_SimpleRequest ==
    /\ api \in SimpleRequestOps =>
          LET c1 == calls[1]
          IN  /\ c1.op = "rustgo_create_rows_wrapper"
              /\ Cardinality(NativeCalls(c1)) <= 1
              /\ NativeReached(c1) =>
                    /\ c1.ev[1].what = "rustgoCreateRows"
                    /\ c1.ev[1].texts[1] \in SimpleRequestTexts(api)
                    /\ c1.ev[1].texts[2] = <<110, 117, 108, 108>>
              /\ c1.ret.kind # "Ok" => Len(calls) = 1
              /\ c1.ret.kind = "Err" =>
                    apiRet = ErrFrom("Error from rustgo_create_rows_wrapper", c1.ret)
              /\ c1.ret.kind = "Ok" =>
                    /\ FreeCalls(c1) = {}
                    /\ Len(calls) = 2
                    /\ calls[2].op = "go_close_rows_wrapper"
                    /\ Cardinality(NativeCalls(calls[2])) <= 1
                    /\ NativeReached(calls[2]) =>
                          /\ calls[2].ev[1].what = "goCloseRows"
                          /\ calls[2].ev[1].nums = <<c1.ev[1].nums[1], c1.ret.nums[1]>>
                    /\ calls[2].ret.kind = "Err" =>
                          apiRet = ErrFrom("Error from go_close_rows_wrapper", calls[2].ret)
                    /\ calls[2].ret.kind = "Ok" => apiRet = OkUnit
    /\ registry["rustgoCreateRows"].set =>
          \A b \in BOOLEAN, n \in NatCreateRows \X NatError :
              set_autocommit(registry, 1, 2, b, n[1], n[2]).calls[1].ev[1].texts[1]
                  = IF b THEN RequestAutocommitOn ELSE RequestAutocommitOff

C16_Witness ==
    /\ api = "set_autocommit"
    /\ Len(calls) = 2
    /\ NativeError(calls[2])
    /\ apiRet.kind = "Err"

ConnectionSteps ==
    <<"go_combine_json_wrapper", "go_parse_params_wrapper", "go_create_connection_wrapper">>
ConnectionErrors ==
    <<"Error from go_combine_json_wrapper", "Error from go_parse_params_wrapper",
      "Error from go_create_connection_wrapper">>

\* C17: create_connection calls combineJSON, parseParams and
\* createConnection in this order, each at most once, a step only after the
\* earlier ones succeeded, and returns the first error; parseParams and
\* createConnection get the merged JSON combineJSON returned, and the log
\* handle of parseParams is passed to createConnection and returned with
\* the connection handle.
C17_CreateConnectionOrder ==
    api = "create_connection" =>
        LET n == Len(calls)
            last == calls[n]
        IN  /\ n \in 1..3
            /\ \A i \in 1..n :
                  /\ calls[i].op = ConnectionSteps[i]
                  /\ Cardinality(NativeCalls(calls[i])) <= 1
                  /\ i < n => calls[i].ret.kind = "Ok"
            /\ n < 3 => last.ret.kind # "Ok"
            /\ last.ret.kind = "Err" => apiRet = ErrFrom(ConnectionErrors[n], last.ret)
            /\ (n >= 2 /\ NativeReached(calls[2])) =>
                  calls[2].ev[1].texts = << calls[1].ret.texts[1] >>
            /\ (n = 3 /\ NativeReached(calls[3])) =>
                  /\ calls[3].ev[1].texts[2] = calls[1].ret.texts[1]
                  /\ calls[3].ev[1].nums = << calls[2].ret.nums[1] >>
            /\ (n = 3 /\ last.ret.kind = "Ok") =>
                  apiRet = Ok("", << calls[2].ret.nums[1], last.ret.nums[1] >>, <<>>)

C17_Witness ==
    /\ api = "create_connection"
    /\ Len(calls) = 3
    /\ apiRet.kind = "Ok"
    /\ apiRet.nums[1] # apiRet.nums[2]
    /\ calls[3].ev[1].texts[2] # calls[1].ev[1].texts[1]


\* ---- get_extension ----

\* The platform as the claim C19 reads it.
IsOs(p, name) == p.os = name
IsArm(p) ==
    \/ (Len(p.arch) >= 3 /\ p.arch[1] = 97 /\ p.arch[2] = 114 /\ p.arch[3] = 109)
    \/ (Len(p.arch) >= 5 /\ SubSeq(p.arch, 1, 5) = <<97, 97, 114, 99, 104>>)
IsPower(p) == p.arch = <<112, 112, 99, 54, 52, 108, 101>>
FipsFlag(p) ==
    /\ p.os = <<108, 105, 110, 117, 120>>
    /\ p.fips_file \in { <<49>>, <<49, 10>> }

\* The first matching rule of the claim's table.
ExpectedSuffix(p) ==
    CASE IsOs(p, <<119, 105, 110, 100, 111, 119, 115>>) ->
             IF p.bits = 32 THEN "x86.dll" ELSE "dll"
      [] IsOs(p, <<109, 97, 99, 111, 115>>) -> "dylib"
      [] IsOs(p, <<97, 105, 120>>) -> "aix.so"
      [] OTHER ->
             CASE IsArm(p) /\ FipsFlag(p) -> "arm.fips.so"
               [] IsArm(p) /\ ~FipsFlag(p) -> "arm.so"
               [] ~IsArm(p) /\ IsPower(p) -> "power.so"
               [] ~IsArm(p) /\ ~IsPower(p) /\ p.bits = 32 -> "x86.so"
               [] ~IsArm(p) /\ ~IsPower(p) /\ p.bits # 32 /\ FipsFlag(p) -> "fips.so"
               [] OTHER -> "so"

\* C19: for every operating system, CPU, pointer width and FIPS flag,
\* get_extension returns the suffix of the first matching rule of the
\* table; it returns a suffix for every input, and the same one each time.
C19_Extension ==
    /\ extension # "" => extension = ExpectedSuffix(platform)
    /\ get_extension(platform) = ExpectedSuffix(platform)
    /\ get_extension(platform) \in
          {"x86.dll", "dll", "dylib", "aix.so", "arm.fips.so", "arm.so", "power.so",
           "x86.so", "fips.so", "so"}

C19_Witness ==
    /\ extension = "x86.so"
    /\ FipsFlag(platform)


\* ---- create_rows ----

\* C18: the request text and the bind values given to
\* rustgo_create_rows_wrapper reach the native createRows call unmodified,
\* for every input text, and so do the log and connection handles.
C18_TextPassthrough ==
    (api = "execute_request" /\ Len(hist) = 1) =>
        LET c == calls[1]
        IN  /\ c.op = "rustgo_create_rows_wrapper"
            /\ NativeReached(c)
            /\ c.ev[1].ev = "call"
            /\ c.ev[1].what = "rustgoCreateRows"
            /\ c.ev[1].nums = << req.u_log, req.conn_handle >>
            /\ c.ev[1].texts = << req.request_text, req.bind_values >>



\* ---- one native invocation per wrapper call ----

\* The native entry point each wrapper invokes.
EntryPointOf(op) ==
    CASE op = "go_combine_json_wrapper" -> "goCombineJSON"
      [] op = "go_parse_params_wrapper" -> "goParseParams"
      [] op = "go_create_connection_wrapper" -> "goCreateConnection"
      [] op = "go_close_connection_wrapper" -> "goCloseConnection"
      [] op = "go_cancel_request_wrapper" -> "goCancelRequest"
      [] op = "rustgo_create_rows_wrapper" -> "rustgoCreateRows"
      [] op = "rustgo_result_metadata_wrapper" -> "rustgoResultMetaData"
      [] op = "rustgo_fetch_row_wrapper" -> "rustgoFetchRow"
      [] op = "go_next_result_wrapper" -> "goNextResult"
      [] op = "go_close_rows_wrapper" -> "goCloseRows"

C22_ReachesCloseRows ==
    (pc = "returned" /\ HistOfOut("create_rows", "Ok") # {}) =>
        /\ HistOf("close_rows") # {}
        /\ hist[Len(hist)].op = "close_rows"



\* ---- next_result ----

\* C23: go_next_result_wrapper returns Ok(true) exactly when the native
\* call reports no error and sets the availability byte to 'Y' (89),
\* Ok(false) when it reports no error and leaves any other byte, the
\* initial 0 included, and Err when the error pointer is not null,
\* whatever the byte.
C23_NextResultClassification ==
    \A i \in DOMAIN calls :
        LET c == calls[i]
        IN  (c.op = "go_next_result_wrapper" /\ NativeReached(c)) =>
              /\ (c.ret.kind = "Ok" /\ c.ret.tag = "true")
                    <=> (c.nat.error.null /\ c.nat.avail = 89)
              /\ (c.ret.kind = "Ok" /\ c.ret.tag = "false")
                    <=> (c.nat.error.null /\ c.nat.avail # 89)
              /\ ~c.nat.error.null => c.ret.kind = "Err"



\* ---- the registry after a failed load ----

\* C24: in every reachable registry state, also after a load_driver that
\* failed part-way, a wrapper whose entry point is published finds
\* goFreePointer published as well, and every wrapper call that reached
\* native code was made with goFreePointer published.
C24_FreePointerWithEveryEntry ==
    /\ \A e \in EntryPoints : registry[e].set => registry["goFreePointer"].set
    /\ \A i \in DOMAIN calls : NativeReached(calls[i]) => registry["goFreePointer"].set


\* C25: after a load_driver call that opened the library and failed on a
\* missing entry point, load_driver can be called again and succeed: some
\* directory makes the next call return Ok.
C25_RetryAfterLinkFailure ==
    (LinkFailed /\ loadCall.called) =>
        \E d \in LibDirs : load_driver(library, registry, d).result = LoadOk


\* A directory whose library file opens and exports all eleven entry points.
ValidDir(d) == d.file /\ d.exports = EntryPoints
\* The latest load_driver call failed to open the file, with the library
\* slot unset before and after it.
OpenFailed == loadCall.called /\ loadCall.result = CouldNotLoad /\ ~library.set

\* C26: a load_driver call that cannot open the library file returns
\* "Could not load library" and leaves the library slot and the eleven
\* entries as they were: unset, when nothing was loaded before; and the
\* next load_driver call, with a valid directory, then returns Ok and
\* publishes the library and all eleven entries.
C26_RetryAfterOpenFailure ==
    [][ /\ (~library.set /\ LoadDriverFrom(NoFile)) =>
              /\ loadCall'.result = CouldNotLoad
              /\ ~library'.set
              /\ \A e \in EntryPoints : ~registry'[e].set
        /\ \A d \in LibDirs :
              (OpenFailed /\ ValidDir(d) /\ LoadDriverFrom(d)) =>
                  /\ loadCall'.result = LoadOk
                  /\ loadOk'
                  /\ library' = [set |-> TRUE, val |-> d]
                  /\ \A e \in EntryPoints : registry'[e] = [set |-> TRUE, val |-> d.build]
      ]_vars

C26_Witness ==
    /\ OpenFailed
    /\ ~loadCall.opened
    /\ \A e \in EntryPoints : ~registry[e].set
    /\ \E d \in LibDirs :
          /\ ValidDir(d)
          /\ ENABLED LoadDriverFrom(d)



\* ---- concurrent load_driver calls ----

\* The number of load_driver calls of the threads in S that returned Ok.
RECURSIVE OkReturns(_)
OkReturns(S) ==
    IF S = {} THEN 0
    ELSE LET t == CHOOSE x \in S : TRUE
         IN  loader[t].oks + OkReturns(S \ {t})

\* C27: when several threads call load_driver concurrently, at most one
\* of all the calls returns Ok, and whenever a call has returned Ok all
\* eleven entry points are published.
C27_OneLoadSucceeds ==
    /\ OkReturns(Loaders) <= 1
    /\ loadOk <=> OkReturns(Loaders) = 1
    /\ OkReturns(Loaders) = 1 =>
          /\ library.set
          /\ \A e \in EntryPoints : registry[e].set

\* A second thread's call has returned "Library already set" while the
\* first thread's call, on a complete library, is still publishing.
C27_Witness ==
    \E t \in Loaders :
        /\ loader[t].at \in 2..Len(SymbolOrder)
        /\ loader[t].lib.exports = EntryPoints
        /\ ~registry["goFreePointer"].set
        /\ loadCall.called
        /\ loadCall.result = AlreadySet
        /\ loadCall.dropped



\* ---- main ----

\* C28: main calls close_connection exactly once for the connection
\* create_connection returned, with its handles, after the last request
\* has returned and whether or not requests failed, and every rows handle
\* created on the connection has been closed before that call; when
\* load_driver or create_connection fails, main makes no request and no
\* close_connection call.
C28_CloseConnectionOnce ==
    /\ main.closes <= 1
    /\ main.closes = 1 =>
          /\ main.connected
          /\ main.pc = "exit"
          /\ pc \in {"idle", "returned"}
          /\ calls[1].op = "go_close_connection_wrapper"
          /\ calls[1].ev[1].nums = <<main.u_log, main.conn_handle>>
          /\ main.unclosed = 0
    /\ (main.pc = "exit" /\ main.connected) => main.closes = 1
    /\ ~main.connected => (main.closes = 0 /\ main.requests = 0 /\ pc = "idle")

=============================================================================
